---------------------------- MODULE Spec2Model ----------------------------
(***************************************************************************)
(* Model of bonds.py: fixed-coupon bonds (Bond), a bond bought at a price  *)
(* (BondDeal) with its yield functions, and a portfolio (BondCollection)   *)
(* with its monthly coupon report.                                         *)
(*                                                                         *)
(* decimal.Decimal values are modelled as decimal floating point numbers   *)
(* c * 10^e whose arithmetic rounds every result half-even to Prec         *)
(* significant digits, as Python's decimal context does (the code runs     *)
(* with 28 digits; the model with Prec).  datetime.date values are         *)
(* proleptic Gregorian ordinals, computed as datetime computes them.       *)
(***************************************************************************)
EXTENDS Integers, Sequences, FiniteSets, TLC

VARIABLES
    pc,           \* position of the running program
    bond,         \* the Bond the calls are made on (self)
    receiver,     \* the Bond a multiplication was applied to
    other,        \* the right (or left) operand of the last multiplication
    mul_count,    \* multiplications made so far
    coupon_date,  \* local of coupon_payments / n
    dates,        \* local of coupon_payments: the rows appended so far
    n,            \* local of n: the count so far
    payments,     \* DataFrame last returned by bond.coupon_payments
    n_value,      \* value last returned by bond.n
    rate,         \* outcome of the last coupon_rate / current_yield
    price,        \* BondDeal.price
    r0,           \* secant: previous iterate
    r1,           \* secant: current iterate
    iter,         \* secant: update steps made
    ytm,          \* outcome of yield_to_maturity
    bonds,        \* BondCollection.bonds
    merged,       \* print_all_coupons: the merged table
    grouped,      \* print_all_coupons: the monthly series
    printed       \* what print_all_coupons wrote

vars == <<pc, bond, receiver, other, mul_count, coupon_date, dates, n, payments,
          n_value, rate, price, r0, r1, iter, ytm, bonds, merged, grouped, printed>>

-----------------------------------------------------------------------------
(* Bounds of the model *)

\* significant digits of the decimal context
Prec == 4
\* iterations of a date-stepping loop the model follows
MaxSteps == 8
\* multiplications applied to one bond
MaxMul == 1

\* the largest number of bonds in a collection
MaxBonds == 2

-----------------------------------------------------------------------------
(* Integers *)

Abs(x) == IF x < 0 THEN -x ELSE x

Sign(x) == IF x < 0 THEN -1 ELSE IF x > 0 THEN 1 ELSE 0

Max(x, y) == IF x >= y THEN x ELSE y

Min(x, y) == IF x <= y THEN x ELSE y

RECURSIVE Pow10(_)
Pow10(k) == IF k <= 0 THEN 1 ELSE 10 * Pow10(k - 1)

RECURSIVE NumDigits(_)
NumDigits(c) == IF c < 10 THEN 1 ELSE 1 + NumDigits(c \div 10)

\* c \div 10^k for 0 <= c < 10^9, without forming a power beyond 10^9
ShiftRight(c, k) == IF k > 9 THEN 0 ELSE c \div Pow10(k)

\* c % 10^k for 0 <= c < 10^9
LowDigits(c, k) == IF k > 9 THEN c ELSE c % Pow10(k)

\* the element of a one-element set
The(S) == CHOOSE x \in S : TRUE

-----------------------------------------------------------------------------
(* decimal.Decimal *)

\* Each operation is stated on values (the ...Of operators) and applied to its
\* operands evaluated once.

\* The value c * 10^e, with trailing zeros of c moved into e: two Decimals are
\* equal (Python ==) exactly when their normal forms are the same record.
RECURSIVE Dec(_, _)
Dec(c, e) ==
    IF c = 0 THEN [c |-> 0, e |-> 0, sig |-> "ok"]
    ELSE IF c % 10 = 0 THEN Dec(c \div 10, e + 1)
    ELSE [c |-> c, e |-> e, sig |-> "ok"]

\* A raised decimal signal in place of a value
Signal(s) == [c |-> 0, e |-> 0, sig |-> s]

IsSignal(x) == x.sig # "ok"

Adjusted(x) == x.e + NumDigits(Abs(x.c)) - 1

\* sgn * (c + fraction) * 10^e rounded half-even to Prec digits, where c >= 0
\* and sticky says that a non-zero fraction below one unit of c was cut off
RoundDecOf(sgn, c, e, sticky) ==
    LET k == NumDigits(c) - Prec
    IN  IF k <= 0 THEN Dec(sgn * c, e)
        ELSE LET p == Pow10(k)
                 q == c \div p
                 r == c % p
                 half == 5 * Pow10(k - 1)
                 up == r > half \/ (r = half /\ (sticky \/ q % 2 = 1))
             IN  Dec(sgn * (IF up THEN q + 1 ELSE q), e + k)

\* rounding to the context precision
RoundDec(sgn, c, e, sticky) == The({RoundDecOf(x[1], x[2], x[3], x[4]) : x \in {<<sgn, c, e, sticky>>}})

DecNegOf(a) == IF IsSignal(a) THEN a ELSE Dec(-a.c, a.e)

\* -a
DecNeg(a) == The({DecNegOf(x) : x \in {a}})

DecAddOf(a, b) ==
    IF IsSignal(a) THEN a
    ELSE IF IsSignal(b) THEN b
    ELSE IF a.c = 0 THEN RoundDec(Sign(b.c), Abs(b.c), b.e, FALSE)
    ELSE IF b.c = 0 THEN RoundDec(Sign(a.c), Abs(a.c), a.e, FALSE)
    ELSE LET top == Max(Adjusted(a), Adjusted(b))
             E == Max(Min(a.e, b.e), top - Prec - 2)
             Part(x) == IF x.e >= E THEN x.c * Pow10(x.e - E)
                        ELSE Sign(x.c) * ShiftRight(Abs(x.c), E - x.e)
             Lost(x) == x.e < E /\ LowDigits(Abs(x.c), E - x.e) # 0
             lostSign == IF Lost(a) THEN Sign(a.c)
                         ELSE IF Lost(b) THEN Sign(b.c) ELSE 0
             s == Part(a) + Part(b)
         IN  IF lostSign = 0 THEN RoundDec(Sign(s), Abs(s), E, FALSE)
             ELSE IF Sign(s) = lostSign \/ s = 0
                  THEN RoundDec(lostSign, Abs(s), E, TRUE)
             ELSE RoundDec(Sign(s), Abs(s) - 1, E, TRUE)

\* a + b
DecAdd(a, b) == The({DecAddOf(x[1], x[2]) : x \in {<<a, b>>}})

\* a - b
DecSub(a, b) == DecAdd(a, DecNeg(b))

DecMulOf(a, b) ==
    IF IsSignal(a) THEN a
    ELSE IF IsSignal(b) THEN b
    ELSE LET sgn == Sign(a.c) * Sign(b.c)
             x == Abs(a.c)
             y == Abs(b.c)
             t == (x % 1000) * y
             lo == t % 1000
             hi == (x \div 1000) * y + t \div 1000
         IN  IF hi < Pow10(Prec) THEN RoundDec(sgn, hi * 1000 + lo, a.e + b.e, FALSE)
             ELSE RoundDec(sgn, hi, a.e + b.e + 3, lo # 0)

\* a * b
DecMul(a, b) == The({DecMulOf(x[1], x[2]) : x \in {<<a, b>>}})

\* The digits of x / y, extended until the quotient has more than Prec digits
RECURSIVE LongDiv(_, _, _, _)
LongDiv(q, r, y, e) ==
    IF q >= Pow10(Prec) \/ r = 0 THEN [q |-> q, r |-> r, e |-> e]
    ELSE LongDiv(q * 10 + (r * 10) \div y, (r * 10) % y, y, e - 1)

DecDivOf(a, b) ==
    IF IsSignal(a) THEN a
    ELSE IF IsSignal(b) THEN b
    ELSE IF b.c = 0 THEN (IF a.c = 0 THEN Signal("InvalidOperation")
                                      ELSE Signal("DivisionByZero"))
    ELSE LET x == Abs(a.c)
             y == Abs(b.c)
             d == LongDiv(x \div y, x % y, y, a.e - b.e)
         IN  RoundDec(Sign(a.c) * Sign(b.c), d.q, d.e, d.r # 0)

\* a / b
DecDiv(a, b) == The({DecDivOf(x[1], x[2]) : x \in {<<a, b>>}})

\* a ** k for an int k >= 0 (exact product, rounded once, for k <= 2)
RECURSIVE DecPowOf(_, _)
DecPowOf(a, k) ==
    IF IsSignal(a) THEN a
    ELSE IF k = 0 THEN (IF a.c = 0 THEN Signal("InvalidOperation") ELSE Dec(1, 0))
    ELSE IF k = 1 THEN RoundDec(Sign(a.c), Abs(a.c), a.e, FALSE)
    ELSE DecMul(DecPowOf(a, k - 1), a)

DecPow(a, k) == The({DecPowOf(x[1], x[2]) : x \in {<<a, k>>}})

-----------------------------------------------------------------------------
(* datetime.date *)

IsLeap(y) == y % 4 = 0 /\ (y % 100 # 0 \/ y % 400 = 0)

DaysBeforeYear(y) ==
    (y - 1) * 365 + (y - 1) \div 4 - (y - 1) \div 100 + (y - 1) \div 400

DaysInMonth(y, m) ==
    IF m = 2 THEN (IF IsLeap(y) THEN 29 ELSE 28)
    ELSE IF m \in {4, 6, 9, 11} THEN 30 ELSE 31

RECURSIVE DaysBeforeMonth(_, _)
DaysBeforeMonth(y, m) ==
    IF m <= 1 THEN 0 ELSE DaysBeforeMonth(y, m - 1) + DaysInMonth(y, m - 1)

\* datetime.date(y, m, d) as its ordinal (date.toordinal)
Date(y, m, d) == DaysBeforeYear(y) + DaysBeforeMonth(y, m) + d

\* the year of an ordinal (datetime's _ord2ymd)
YearOf(ord) ==
    LET d0 == ord - 1
        n400 == d0 \div 146097
        d1 == d0 % 146097
        n100 == d1 \div 36524
        d2 == d1 % 36524
        n4 == d2 \div 1461
        d3 == d2 % 1461
        n1 == d3 \div 365
        y == n400 * 400 + n100 * 100 + n4 * 4 + n1 + 1
    IN  IF n1 = 4 \/ n100 = 4 THEN y - 1 ELSE y

RECURSIVE MonthFrom(_, _, _)
MonthFrom(y, m, dayOfYear) ==
    IF dayOfYear <= DaysInMonth(y, m) THEN m
    ELSE MonthFrom(y, m + 1, dayOfYear - DaysInMonth(y, m))

\* the month of an ordinal
MonthOf(ord) == MonthFrom(YearOf(ord), 1, ord - DaysBeforeYear(YearOf(ord)))

-----------------------------------------------------------------------------
(* Program constants *)

TO_PERCENT == 100

DAYS_PER_YEAR == 365

\* "no value": a variable not yet assigned, or a call that has not returned
None == [none |-> TRUE]

\* Decimal(i) of an int i
DecimalOfInt(i) == Dec(i, 0)

-----------------------------------------------------------------------------
(* class Bond *)

\* Bond.__init__ (face_value and coupon arrive as Decimals: see Construct and Mul)
Bond(name, face_value, coupon, coupon_days, first_coupon_date, maturity_date) ==
    [name |-> name,
     face_value |-> face_value,
     coupon |-> coupon,
     coupon_days |-> coupon_days,
     first_coupon_date |-> first_coupon_date,
     maturity_date |-> maturity_date]

\* isinstance(other, int)
IsInt(o) == o.type = "int"

\* variant of the product: the coupon left unscaled
MulFaceValueOnly(self, o) ==
    Bond(self.name \o "*" \o ToString(o.num),
         DecMul(self.face_value, DecimalOfInt(o.num)),
         self.coupon,
         self.coupon_days, self.first_coupon_date, self.maturity_date)

\* Bond.__mul__ when it returns: the operand is an int
Mul(self, o) ==
    Bond(self.name \o "*" \o ToString(o.num),
         DecMul(self.face_value, DecimalOfInt(o.num)),
         DecMul(self.coupon, DecimalOfInt(o.num)),
         self.coupon_days, self.first_coupon_date, self.maturity_date)

\* Bond.coupon_per_year
coupon_per_year(self) ==
    DecDiv(DecMul(self.coupon, DecimalOfInt(DAYS_PER_YEAR)), DecimalOfInt(self.coupon_days))

\* Bond.coupon_rate
coupon_rate(self) == DecDiv(coupon_per_year(self), self.face_value)

\* BondDeal.current_yield, for the deal (self_bond, self_price)
current_yield(self_bond, self_price) == DecDiv(coupon_per_year(self_bond), self_price)

\* variant of the loop condition: the maturity date itself excluded
CouponPaymentsContinuesStrict(self, date) == date < self.maturity_date

\* the loop condition of coupon_payments
CouponPaymentsContinues(self, date) == date <= self.maturity_date

\* variant of the loop condition of n: the maturity date itself excluded
NContinuesStrict(self, date) == date < self.maturity_date

\* the loop condition of n
NContinues(self, date) == date <= self.maturity_date

\* variant of the step: one day too long
NextCouponDateSkewed(self, date) == date + self.coupon_days + 1

\* coupon_date += datetime.timedelta(self.coupon_days)
NextCouponDate(self, date) == date + self.coupon_days

\* the row coupon_payments appends for a date
CouponRow(self, date) == [date |-> date, value |-> self.coupon]

\* the stepping loops terminate on this bond
Terminates(self) == self.coupon_days > 0 \/ self.first_coupon_date > self.maturity_date

RECURSIVE CouponRowsFrom(_, _)
CouponRowsFrom(self, date) ==
    IF CouponPaymentsContinues(self, date)
    THEN <<CouponRow(self, date)>> \o CouponRowsFrom(self, NextCouponDate(self, date))
    ELSE <<>>

RECURSIVE NFrom(_, _)
NFrom(self, date) ==
    IF NContinues(self, date) THEN 1 + NFrom(self, NextCouponDate(self, date)) ELSE 0

\* Bond.n as a function of the bond (for a bond on which the loop terminates)
BondN(self) == NFrom(self, self.first_coupon_date)

\* pd.DataFrame(data=dates, columns=('date', name)) indexed by date
DataFrame(rows) == [rows |-> rows]

\* Bond.coupon_payments as a function of the bond (when the loop terminates)
coupon_payments(self) == DataFrame(CouponRowsFrom(self, self.first_coupon_date))

\* the value n returns
NReturned(count) == [value |-> count]

-----------------------------------------------------------------------------
(* Inputs of the bond operations *)

Names == {"OFZ_29012"}

FaceValues == {0, 1000}

Coupons == {Dec(0, 0), Dec(3959, -2), Dec(369, -1)}

CouponDays == {-182, 0, 182}

FirstCouponDates == {Date(2019, 11, 20), Date(2019, 12, 11)}

MaturityDates == {Date(2022, 11, 16), Date(2022, 12, 7), Date(2019, 11, 19)}

\* operands of a multiplication: ints, a float (3/2) and a str
Others ==
    {[type |-> "int", num |-> k, den |-> 1] : k \in {-1, 0, 1, 2, 10}}
        \cup {[type |-> "float", num |-> 3, den |-> 2], [type |-> "str", num |-> 0, den |-> 1]}

Prices == {0, 1000}

Idle ==
    /\ r0 = None /\ r1 = None /\ iter = 0 /\ ytm = None
    /\ bonds = <<>> /\ merged = None /\ grouped = None /\ printed = None

-----------------------------------------------------------------------------
(* The bond operations as a program: construct a bond, then call on it *)

Init ==
    /\ pc = "start"
    /\ bond = None /\ receiver = None /\ other = None /\ mul_count = 0
    /\ coupon_date = 0 /\ dates = <<>> /\ n = 0
    /\ payments = None /\ n_value = None /\ rate = None /\ price = None
    /\ Idle

Construct ==
    /\ pc = "start"
    /\ \E name \in Names, fv \in FaceValues, cp \in Coupons, cd \in CouponDays,
          first \in FirstCouponDates, mat \in MaturityDates :
          bond' = Bond(name, DecimalOfInt(fv), cp, cd, first, mat)
    /\ pc' = "ready"
    /\ UNCHANGED <<receiver, other, mul_count, coupon_date, dates, n, payments,
                   n_value, rate, price, r0, r1, iter, ytm, bonds, merged, grouped, printed>>

\* bond * o (side "right", __mul__) or o * bond (side "left", __rmul__, which
\* returns self * other)
Multiply(side) ==
    /\ pc = "ready"
    /\ mul_count < MaxMul
    /\ \E o \in Others :
          /\ other' = [side |-> side, operand |-> o]
          /\ receiver' = bond
          /\ IF IsInt(o)
             THEN /\ bond' = Mul(bond, o)
                  /\ pc' = "ready"
             ELSE /\ bond' = bond
                  /\ pc' = "TypeError"
    /\ mul_count' = mul_count + 1
    /\ payments' = None /\ n_value' = None /\ rate' = None /\ price' = None
    /\ UNCHANGED <<coupon_date, dates, n, r0, r1, iter, ytm, bonds, merged, grouped, printed>>

MulRight == Multiply("right")

MulLeft == Multiply("left")

CouponPaymentsStart ==
    /\ pc = "ready"
    /\ payments = None
    /\ dates' = <<>>
    /\ coupon_date' = bond.first_coupon_date
    /\ pc' = "coupon_payments"
    /\ UNCHANGED <<bond, receiver, other, mul_count, n, payments, n_value, rate, price,
                   r0, r1, iter, ytm, bonds, merged, grouped, printed>>

CouponPaymentsStep ==
    /\ pc = "coupon_payments"
    /\ CouponPaymentsContinues(bond, coupon_date)
    /\ Len(dates) < MaxSteps
    /\ dates' = Append(dates, CouponRow(bond, coupon_date))
    /\ coupon_date' = NextCouponDate(bond, coupon_date)
    /\ UNCHANGED <<pc, bond, receiver, other, mul_count, n, payments, n_value, rate, price,
                   r0, r1, iter, ytm, bonds, merged, grouped, printed>>

CouponPaymentsReturn ==
    /\ pc = "coupon_payments"
    /\ ~CouponPaymentsContinues(bond, coupon_date)
    /\ payments' = DataFrame(dates)
    /\ pc' = "ready"
    /\ UNCHANGED <<bond, receiver, other, mul_count, coupon_date, dates, n, n_value, rate,
                   price, r0, r1, iter, ytm, bonds, merged, grouped, printed>>

NStart ==
    /\ pc = "ready"
    /\ n_value = None
    /\ n' = 0
    /\ coupon_date' = bond.first_coupon_date
    /\ pc' = "n"
    /\ UNCHANGED <<bond, receiver, other, mul_count, dates, payments, n_value, rate, price,
                   r0, r1, iter, ytm, bonds, merged, grouped, printed>>

NStep ==
    /\ pc = "n"
    /\ NContinues(bond, coupon_date)
    /\ n < MaxSteps
    /\ coupon_date' = NextCouponDate(bond, coupon_date)
    /\ n' = n + 1
    /\ UNCHANGED <<pc, bond, receiver, other, mul_count, dates, payments, n_value, rate,
                   price, r0, r1, iter, ytm, bonds, merged, grouped, printed>>

NReturn ==
    /\ pc = "n"
    /\ ~NContinues(bond, coupon_date)
    /\ n_value' = NReturned(n)
    /\ pc' = "ready"
    /\ UNCHANGED <<bond, receiver, other, mul_count, coupon_date, dates, n, payments, rate,
                   price, r0, r1, iter, ytm, bonds, merged, grouped, printed>>

\* the outcome of a property read: its value, or the decimal signal raised
Outcome(op, value) == [op |-> op, value |-> value]

\* where the program is after a call with this outcome: an exception is not caught
After(value) == IF IsSignal(value) THEN value.sig ELSE "ready"

CouponRate ==
    /\ pc = "ready"
    /\ rate' = Outcome("coupon_rate", coupon_rate(bond))
    /\ pc' = After(coupon_rate(bond))
    /\ price' = None
    /\ UNCHANGED <<bond, receiver, other, mul_count, coupon_date, dates, n, payments,
                   n_value, r0, r1, iter, ytm, bonds, merged, grouped, printed>>

\* BondDeal(bond, p).current_yield
CurrentYield ==
    /\ pc = "ready"
    /\ \E p \in Prices :
          /\ price' = DecimalOfInt(p)
          /\ rate' = Outcome("current_yield", current_yield(bond, DecimalOfInt(p)))
          /\ pc' = After(current_yield(bond, DecimalOfInt(p)))
    /\ UNCHANGED <<bond, receiver, other, mul_count, coupon_date, dates, n, payments,
                   n_value, r0, r1, iter, ytm, bonds, merged, grouped, printed>>

Next ==
    \/ Construct
    \/ MulRight
    \/ MulLeft
    \/ CouponPaymentsStart
    \/ CouponPaymentsStep
    \/ CouponPaymentsReturn
    \/ NStart
    \/ NStep
    \/ NReturn
    \/ CouponRate
    \/ CurrentYield

Spec == Init /\ [][Next]_vars

-----------------------------------------------------------------------------
(* class BondDeal: yield_to_maturity *)

\* BondDeal._yield_to_maturity_function(ytm) for the deal (self_bond, self_price)
yield_to_maturity_function(self_bond, self_price, y) ==
    LET one == DecimalOfInt(1)
        discount == DecPow(DecAdd(one, y), BondN(self_bond))
    IN  DecSub(DecAdd(DecMul(self_bond.coupon,
                             DecDiv(DecSub(one, DecDiv(one, discount)), y)),
                      DecDiv(self_bond.face_value, discount)),
               self_price)

\* a shorter budget
YtmIterationsShort == 100 - 1

\* the iteration budget yield_to_maturity passes to utils.secant
YtmIterations == 100

\* the first initial guess, Decimal('0.000001')
YtmGuess0 == Dec(1, -6)

\* the second initial guess, Decimal('1')
YtmGuess1 == Dec(1, 0)

\* utils.secant, one update: r1 - f(r1) * (r1 - r0) / (f(r1) - f(r0))
SecantNext(f1, f0, x0, x1) == DecSub(x1, DecDiv(DecMul(f1, DecSub(x1, x0)), DecSub(f1, f0)))

\* secant(...) * DAYS_PER_YEAR / self.bond.coupon_days
Annualised(self_bond, root) ==
    DecDiv(DecMul(root, DecimalOfInt(DAYS_PER_YEAR)), DecimalOfInt(self_bond.coupon_days))

-----------------------------------------------------------------------------
(* yield_to_maturity as a program: a deal is constructed, then the solver runs *)

DealCoupons == {Dec(0, 0), Dec(10, 0), Dec(3959, -2)}

DealFaceValues == {100, 1000}

DealMaturityDates == {Date(2019, 11, 19), Date(2019, 11, 20), Date(2020, 5, 20)}

DealPrices == {84, 100, 885, 1000}

DealBonds ==
    {Bond("OFZ_29012", DecimalOfInt(fv), cp, 182, Date(2019, 11, 20), mat) :
        fv \in DealFaceValues, cp \in DealCoupons, mat \in DealMaturityDates}

SolverInit ==
    /\ pc = "deal"
    /\ bond \in DealBonds
    /\ price \in {DecimalOfInt(p) : p \in DealPrices}
    /\ receiver = None /\ other = None /\ mul_count = 0
    /\ coupon_date = 0 /\ dates = <<>> /\ n = 0
    /\ payments = None /\ n_value = None /\ rate = None
    /\ Idle

\* yield_to_maturity calls utils.secant with the two guesses and the budget
SecantStart ==
    /\ pc = "deal"
    /\ r0' = YtmGuess0
    /\ r1' = YtmGuess1
    /\ iter' = 0
    /\ pc' = "secant"
    /\ UNCHANGED <<bond, receiver, other, mul_count, coupon_date, dates, n, payments,
                   n_value, rate, price, ytm, bonds, merged, grouped, printed>>

\* one iteration of the loop of utils.secant
SecantStep ==
    /\ pc = "secant"
    /\ iter < YtmIterations
    /\ \E f1 \in {yield_to_maturity_function(bond, price, r1)},
          f0 \in {yield_to_maturity_function(bond, price, r0)} :
          \E next \in {SecantNext(f1, f0, r0, r1)} :
             IF IsSignal(f1) \/ IsSignal(f0)
             THEN \* the function itself raises: the exception leaves the solver
                  /\ pc' = (IF IsSignal(f1) THEN f1.sig ELSE f0.sig)
                  /\ UNCHANGED <<r0, r1, iter>>
             ELSE IF IsSignal(next)
             THEN \* zero denominator of the secant quotient
                  /\ pc' = "SolverDegenerate"
                  /\ UNCHANGED <<r0, r1, iter>>
             ELSE /\ r0' = r1
                  /\ r1' = next
                  /\ iter' = iter + 1
                  /\ pc' = pc
    /\ UNCHANGED <<bond, receiver, other, mul_count, coupon_date, dates, n, payments,
                   n_value, rate, price, ytm, bonds, merged, grouped, printed>>

\* the budget is used up: secant returns r1, yield_to_maturity annualises it
SecantReturn ==
    /\ pc = "secant"
    /\ iter >= YtmIterations
    /\ ytm' = [root |-> r1, value |-> Annualised(bond, r1)]
    /\ pc' = "returned"
    /\ UNCHANGED <<bond, receiver, other, mul_count, coupon_date, dates, n, payments,
                   n_value, rate, price, r0, r1, iter, bonds, merged, grouped, printed>>

SolverNext ==
    \/ SecantStart
    \/ SecantStep
    \/ SecantReturn

\* the program is single-threaded and runs on: a step that can be taken is taken
SolverSpec == SolverInit /\ [][SolverNext]_vars /\ WF_vars(SolverNext)

-----------------------------------------------------------------------------
(* Claims about the bond operations (specification Spec) *)

\* the bond of the scenario: face 1000, coupon 39.59, 182 days,
\* 2019-11-20 to 2022-11-16
ScenarioTerms(b) ==
    /\ b.face_value = DecimalOfInt(1000)
    /\ b.coupon = Dec(3959, -2)
    /\ b.coupon_days = 182
    /\ b.first_coupon_date = Date(2019, 11, 20)
    /\ b.maturity_date = Date(2022, 11, 16)

PositiveInt(o) == IsInt(o) /\ o.num > 0

\* k times a Decimal, exactly
ScaleExact(d, k) == Dec(d.c * k, d.e)

\* C1: whenever coupon_payments and n have both returned for a bond, the number
\* of rows of the schedule equals n.
C1_PaymentsLengthEqualsN ==
    (payments # None /\ n_value # None) => Len(payments.rows) = n_value.value

C1_Witness ==
    /\ payments # None /\ n_value # None
    /\ bond.coupon_days > 0
    /\ Len(payments.rows) >= 6

\* C2 as claimed: the scenario bond has exactly 6 coupon dates and n = 6.
C2_ScenarioHasSixCoupons ==
    (bond # None /\ ScenarioTerms(bond)) =>
        /\ payments # None => Len(payments.rows) = 6
        /\ n_value # None => n_value.value = 6

\* C2 amended: the scenario bond has exactly 7 coupon dates and n = 7 (the
\* maturity date is 6 * 182 days after the first coupon date and is included).
C2_ScenarioHasSevenCoupons ==
    (bond # None /\ ScenarioTerms(bond)) =>
        /\ payments # None => Len(payments.rows) = 7
        /\ n_value # None => n_value.value = 7

C2_Witness ==
    /\ bond # None /\ ScenarioTerms(bond)
    /\ payments # None /\ n_value # None
    /\ payments.rows[Len(payments.rows)].date = bond.maturity_date

\* C4 as claimed: a multiplication by an int that is zero or negative, or by a
\* value that is no int, from either side, is an error and yields no Bond.
C4_OnlyPositiveIntegersScale ==
    (other # None /\ ~PositiveInt(other.operand)) =>
        (pc = "TypeError" /\ bond = receiver)

\* C5: after a multiplication by a positive int k from either side, face_value
\* and coupon are k times the original ones, coupon_days and both dates are
\* unchanged, so the schedule and n are the same; the scenario bond times 10
\* has face_value 10000 and coupon 395.90.
C5_PositiveScaling ==
    (other # None /\ PositiveInt(other.operand)) =>
        LET k == other.operand.num
        IN  /\ bond.face_value = ScaleExact(receiver.face_value, k)
            /\ bond.coupon = ScaleExact(receiver.coupon, k)
            /\ bond.coupon_days = receiver.coupon_days
            /\ bond.first_coupon_date = receiver.first_coupon_date
            /\ bond.maturity_date = receiver.maturity_date
            /\ Terminates(receiver) =>
                  /\ BondN(bond) = BondN(receiver)
                  /\ \A i \in 1..BondN(receiver) :
                        coupon_payments(bond).rows[i].date
                            = coupon_payments(receiver).rows[i].date
            /\ (ScenarioTerms(receiver) /\ k = 10) =>
                  /\ bond.face_value = DecimalOfInt(10000)
                  /\ bond.coupon = Dec(39590, -2)

C5_Witness ==
    /\ other # None /\ other.side = "left"
    /\ other.operand = [type |-> "int", num |-> 10, den |-> 1]
    /\ ScenarioTerms(receiver)
    /\ bond.coupon = Dec(3959, -1)

\* C6: the schedule coupon_payments returns has the dates
\* first_coupon_date + i * coupon_days, i = 0 .. m-1, strictly increasing, each
\* <= maturity_date and carrying the bond's coupon; the next step is beyond
\* maturity_date; it is empty when first_coupon_date > maturity_date.
C6_LiteralStepping ==
    payments # None =>
        LET rows == payments.rows
            m == Len(rows)
        IN  /\ \A i \in 1..m :
                  /\ rows[i].date = bond.first_coupon_date + (i - 1) * bond.coupon_days
                  /\ rows[i].date <= bond.maturity_date
                  /\ rows[i].value = bond.coupon
            /\ \A i \in 1..(m - 1) : rows[i].date < rows[i + 1].date
            /\ bond.first_coupon_date + m * bond.coupon_days > bond.maturity_date
            /\ bond.first_coupon_date > bond.maturity_date => m = 0

\* a schedule whose last date is not the maturity date
C6_Witness ==
    /\ payments # None
    /\ Len(payments.rows) = 6
    /\ payments.rows[6].date < bond.maturity_date

\* C8 as claimed: a rate computed against a zero denominator (coupon_rate with
\* face_value 0, current_yield with price 0) raises DivisionByZero, for every
\* coupon >= 0.
C8_ZeroDenominatorIsDivisionByZero ==
    (rate # None /\ bond.coupon_days > 0 /\ bond.coupon.c >= 0) =>
        /\ (rate.op = "coupon_rate" /\ bond.face_value.c = 0) =>
              (rate.value.sig = "DivisionByZero" /\ pc = "DivisionByZero")
        /\ (rate.op = "current_yield" /\ price.c = 0) =>
              (rate.value.sig = "DivisionByZero" /\ pc = "DivisionByZero")

\* C10 as claimed: every constructed Bond has coupon_days > 0, so each step of
\* the loops of coupon_payments and n moves the date strictly forward.
C10_SteppedDateStrictlyIncreases ==
    [][(pc \in {"coupon_payments", "n"} /\ pc' = pc) =>
           (bond.coupon_days > 0 /\ coupon_date' > coupon_date)]_vars

-----------------------------------------------------------------------------
(* Claims about the solver (specification SolverSpec) *)

\* the function value at an iterate is defined (no decimal signal is raised)
Defined(x) == ~IsSignal(yield_to_maturity_function(bond, price, x))

\* the two successive function evaluations are both defined and equal
EvaluationsEqual ==
    /\ Defined(r1) /\ Defined(r0)
    /\ yield_to_maturity_function(bond, price, r1) = yield_to_maturity_function(bond, price, r0)

\* an iterate at which the function divides by zero: ytm = 0 or 1 + ytm = 0
Singular(x) == x = Dec(0, 0) \/ x = Dec(-1, 0)

SolverStopped == pc \notin {"deal", "secant"}

-----------------------------------------------------------------------------
(* class BondCollection: print_all_coupons *)

\* a missing cell of a joined frame
NaN == [c |-> 0, e |-> 0, sig |-> "NaN"]

\* a frame indexed by date: the number of value columns, the rows by date
Frame(columns, rows) == [columns |-> columns, rows |-> rows]

\* bond.coupon_payments as one frame of dfs: a single column named after the bond
PaymentsFrame(self) ==
    LET df == coupon_payments(self)
    IN  Frame(1, [i \in 1..Len(df.rows) |->
                    [date |-> df.rows[i].date, cells |-> <<df.rows[i].value>>]])

FrameDates(f) == {f.rows[i].date : i \in 1..Len(f.rows)}

RECURSIVE SortedDates(_)
SortedDates(S) ==
    IF S = {} THEN <<>>
    ELSE LET m == CHOOSE x \in S : \A y \in S : x <= y
         IN  <<m>> \o SortedDates(S \ {m})

\* the cells of a frame on a date: NaN in every column when the date is absent
CellsAt(f, d) ==
    IF \E i \in 1..Len(f.rows) : f.rows[i].date = d
    THEN f.rows[CHOOSE i \in 1..Len(f.rows) : f.rows[i].date = d].cells
    ELSE [k \in 1..f.columns |-> NaN]

\* pd.merge(left, right, on='date', how='outer', sort=True)
merge(left, right) ==
    LET ds == SortedDates(FrameDates(left) \cup FrameDates(right))
    IN  Frame(left.columns + right.columns,
              [i \in 1..Len(ds) |->
                 [date |-> ds[i], cells |-> CellsAt(left, ds[i]) \o CellsAt(right, ds[i])]])

\* functools.reduce(merge, dfs) from the i-th frame on, acc the result so far
RECURSIVE reduce(_, _, _)
reduce(acc, dfs, i) ==
    IF i > Len(dfs) THEN acc ELSE reduce(merge(acc, dfs[i]), dfs, i + 1)

\* the sum of a sequence of cells, missing cells skipped
RECURSIVE SumCells(_, _)
SumCells(cells, i) ==
    IF i > Len(cells) THEN Dec(0, 0)
    ELSE IF cells[i] = NaN THEN SumCells(cells, i + 1)
    ELSE DecAdd(cells[i], SumCells(cells, i + 1))

\* merged['total'] = merged.sum(axis=1): a further column holding each row's sum
WithTotal(f) ==
    Frame(f.columns + 1,
          [i \in 1..Len(f.rows) |->
             [date |-> f.rows[i].date,
              cells |-> Append(f.rows[i].cells, SumCells(f.rows[i].cells, 1))]])

\* the calendar month of a date, counted from year 0
MonthIndex(d) == YearOf(d) * 12 + MonthOf(d) - 1

\* the last day of a month: the label resample('M') gives its bin
MonthEnd(mi) == Date(mi \div 12, (mi % 12) + 1, DaysInMonth(mi \div 12, (mi % 12) + 1))

\* the sum of one column over the rows of one month
RECURSIVE ColumnMonthSum(_, _, _, _)
ColumnMonthSum(f, k, mi, i) ==
    IF i > Len(f.rows) THEN Dec(0, 0)
    ELSE IF MonthIndex(f.rows[i].date) = mi /\ f.rows[i].cells[k] # NaN
    THEN DecAdd(f.rows[i].cells[k], ColumnMonthSum(f, k, mi, i + 1))
    ELSE ColumnMonthSum(f, k, mi, i + 1)

\* the columns resample('M').sum() keeps: every column, or, where the library
\* aggregates numeric columns only, the float column 'total' alone (the bond
\* columns hold Decimal objects)
KeptColumns(f, numeric_only) == IF numeric_only THEN {f.columns} ELSE 1..f.columns

\* .sum(axis=1) of the monthly sums: the kept columns added up, from column k on
RECURSIVE MonthRowSum(_, _, _, _)
MonthRowSum(f, kept, mi, k) ==
    IF k > f.columns THEN Dec(0, 0)
    ELSE IF k \in kept
    THEN DecAdd(ColumnMonthSum(f, k, mi, 1), MonthRowSum(f, kept, mi, k + 1))
    ELSE MonthRowSum(f, kept, mi, k + 1)

\* a series: its dtype and its rows (index, value)
Series(dtype, rows) == [dtype |-> dtype, rows |-> rows]

\* merged.resample('M').sum().sum(axis=1): one row for every calendar month from
\* the month of the first date to the month of the last
resample_sum(f, numeric_only) ==
    IF Len(f.rows) = 0 THEN Series(IF numeric_only THEN "float64" ELSE "object", <<>>)
    ELSE LET first == MonthIndex(f.rows[1].date)
             last == MonthIndex(f.rows[Len(f.rows)].date)
         IN  Series(IF numeric_only THEN "float64" ELSE "object",
                    [j \in 1..(last - first + 1) |->
                       [index |-> MonthEnd(first + j - 1),
                        value |-> MonthRowSum(f, KeptColumns(f, numeric_only),
                                              first + j - 1, 1)]])

\* a month number as two digits
Pad2(m) == IF m < 10 THEN "0" \o ToString(m) ELSE ToString(m)

\* date.strftime('%Y/%m')
strftime(d) == ToString(YearOf(d)) \o "/" \o Pad2(MonthOf(d))

\* grouped.index = grouped.index.strftime('%Y/%m')
WithLabels(g) ==
    Series(g.dtype, [i \in 1..Len(g.rows) |->
                       [index |-> strftime(g.rows[i].index), value |-> g.rows[i].value]])

\* variant of the filter: every month is kept
KeepAllAmounts(g) == g

\* grouped[grouped != 0]
DropZeroAmounts(g) == Series(g.dtype, SelectSeq(g.rows, LAMBDA r : r.value # Dec(0, 0)))

-----------------------------------------------------------------------------
(* print_all_coupons as a program: a collection is constructed, then printed *)

\* 10 * ofz_29012 of the demonstration
OFZ_29012 ==
    Mul(Bond("OFZ_29012", DecimalOfInt(1000), Dec(3959, -2), 182,
             Date(2019, 11, 20), Date(2022, 11, 16)),
        [type |-> "int", num |-> 10, den |-> 1])

\* 15 * ofz_26220 of the demonstration
OFZ_26220 ==
    Mul(Bond("OFZ_26220", DecimalOfInt(1000), Dec(369, -1), 182,
             Date(2019, 12, 11), Date(2022, 12, 7)),
        [type |-> "int", num |-> 15, den |-> 1])

\* a bond that pays nothing, in months in which the others do not pay
ZeroCouponBond ==
    Bond("ZERO", DecimalOfInt(1000), Dec(0, 0), 91, Date(2020, 1, 15), Date(2020, 4, 30))

\* three payments within one month, the second on a coupon date of OFZ_29012
ShortBond ==
    Bond("SHORT", DecimalOfInt(100), Dec(25, 0), 10, Date(2019, 11, 10), Date(2019, 11, 30))

\* a bond whose first coupon date is after its maturity date
EmptyBond ==
    Bond("EMPTY", DecimalOfInt(100), Dec(25, 0), 182, Date(2019, 11, 20), Date(2019, 11, 19))

ReportBonds == {OFZ_29012, OFZ_26220, ZeroCouponBond, ShortBond, EmptyBond}

\* BondCollection(*bonds)
ReportInit ==
    /\ pc = "collection"
    /\ bonds \in UNION {[1..k -> ReportBonds] : k \in 0..MaxBonds}
    /\ merged = None /\ grouped = None /\ printed = None
    /\ bond = None /\ receiver = None /\ other = None /\ mul_count = 0
    /\ coupon_date = 0 /\ dates = <<>> /\ n = 0
    /\ payments = None /\ n_value = None /\ rate = None /\ price = None
    /\ r0 = None /\ r1 = None /\ iter = 0 /\ ytm = None

\* dfs = [...]; merged = functools.reduce(...): reduce of no frames is a TypeError
MergePayments ==
    /\ pc = "collection"
    /\ IF Len(bonds) = 0
       THEN /\ pc' = "TypeError"
            /\ merged' = merged
       ELSE /\ merged' = reduce(PaymentsFrame(bonds[1]),
                                [i \in 1..Len(bonds) |-> PaymentsFrame(bonds[i])], 2)
            /\ pc' = "merged"
    /\ UNCHANGED <<bond, receiver, other, mul_count, coupon_date, dates, n, payments,
                   n_value, rate, price, r0, r1, iter, ytm, bonds, grouped, printed>>

AddTotal ==
    /\ pc = "merged"
    /\ merged' = WithTotal(merged)
    /\ pc' = "totalled"
    /\ UNCHANGED <<bond, receiver, other, mul_count, coupon_date, dates, n, payments,
                   n_value, rate, price, r0, r1, iter, ytm, bonds, grouped, printed>>

\* whether the monthly sum keeps the Decimal columns depends on the library
\* the program runs with: both outcomes are possible
Resample ==
    /\ pc = "totalled"
    /\ \E numeric_only \in BOOLEAN : grouped' = resample_sum(merged, numeric_only)
    /\ pc' = "grouped"
    /\ UNCHANGED <<bond, receiver, other, mul_count, coupon_date, dates, n, payments,
                   n_value, rate, price, r0, r1, iter, ytm, bonds, merged, printed>>

FormatIndex ==
    /\ pc = "grouped"
    /\ grouped' = WithLabels(grouped)
    /\ pc' = "formatted"
    /\ UNCHANGED <<bond, receiver, other, mul_count, coupon_date, dates, n, payments,
                   n_value, rate, price, r0, r1, iter, ytm, bonds, merged, printed>>

DropZero ==
    /\ pc = "formatted"
    /\ grouped' = DropZeroAmounts(grouped)
    /\ pc' = "filtered"
    /\ UNCHANGED <<bond, receiver, other, mul_count, coupon_date, dates, n, payments,
                   n_value, rate, price, r0, r1, iter, ytm, bonds, merged, printed>>

PrintReport ==
    /\ pc = "filtered"
    /\ printed' = grouped
    /\ pc' = "printed"
    /\ UNCHANGED <<bond, receiver, other, mul_count, coupon_date, dates, n, payments,
                   n_value, rate, price, r0, r1, iter, ytm, bonds, merged, grouped>>

ReportNext ==
    \/ MergePayments
    \/ AddTotal
    \/ Resample
    \/ FormatIndex
    \/ DropZero
    \/ PrintReport

ReportSpec == ReportInit /\ [][ReportNext]_vars

-----------------------------------------------------------------------------
(* Claims about the report (ReportSpec) *)

\* every coupon payment of the collection: (date, amount) of each bond's schedule
RECURSIVE PaymentsOfBond(_, _)
PaymentsOfBond(rows, i) ==
    IF i > Len(rows) THEN <<>> ELSE <<rows[i]>> \o PaymentsOfBond(rows, i + 1)

RECURSIVE AllPayments(_)
AllPayments(i) ==
    IF i > Len(bonds) THEN <<>>
    ELSE PaymentsOfBond(coupon_payments(bonds[i]).rows, 1) \o AllPayments(i + 1)

\* the sum of the coupon amounts of the payments that fall in a month
RECURSIVE MonthCouponSum(_, _, _)
MonthCouponSum(ps, mi, i) ==
    IF i > Len(ps) THEN Dec(0, 0)
    ELSE IF MonthIndex(ps[i].date) = mi
    THEN DecAdd(ps[i].value, MonthCouponSum(ps, mi, i + 1))
    ELSE MonthCouponSum(ps, mi, i + 1)

\* the months from the first payment of the collection to the last
ReportMonths ==
    LET ms == {MonthIndex(AllPayments(1)[i].date) : i \in 1..Len(AllPayments(1))}
    IN  IF ms = {} THEN {}
        ELSE (CHOOSE a \in ms : \A x \in ms : a <= x)..(CHOOSE b \in ms : \A x \in ms : x <= b)

PaymentsIn(mi) ==
    \E i \in 1..Len(AllPayments(1)) : MonthIndex(AllPayments(1)[i].date) = mi

Reported(mi) ==
    \E i \in 1..Len(printed.rows) : printed.rows[i].index = strftime(MonthEnd(mi))

\* C3 (as stated): the amount the report shows for a year-month equals the sum
\* of the coupon amounts of all payments of all bonds dated in that month; no
\* payment is dropped and none is counted more than once.
C3_ReportedAmountIsMonthSum ==
    pc = "printed" =>
        \A mi \in ReportMonths :
            /\ MonthCouponSum(AllPayments(1), mi, 1) # Dec(0, 0) => Reported(mi)
            /\ \A i \in 1..Len(printed.rows) :
                  printed.rows[i].index = strftime(MonthEnd(mi))
                      => printed.rows[i].value = MonthCouponSum(AllPayments(1), mi, 1)

\* C7: the printed report has no entry whose amount is zero: a month with no
\* payments, or whose payments sum to zero, is absent, and every month whose
\* payments have a nonzero sum is present.
C7_NoZeroMonths ==
    pc = "printed" =>
        /\ \A i \in 1..Len(printed.rows) : printed.rows[i].value # Dec(0, 0)
        /\ \A mi \in ReportMonths :
              Reported(mi) <=> MonthCouponSum(AllPayments(1), mi, 1) # Dec(0, 0)
        /\ \A i \in 1..Len(printed.rows) :
              \E mi \in ReportMonths : printed.rows[i].index = strftime(MonthEnd(mi))

\* a printed report of a collection with a month without payments, a month whose
\* payments sum to zero and a month with a nonzero sum
C7_Witness ==
    /\ pc = "printed"
    /\ Len(printed.rows) > 0
    /\ \E mi \in ReportMonths : ~PaymentsIn(mi) /\ ~Reported(mi)
    /\ \E mi \in ReportMonths :
          PaymentsIn(mi) /\ MonthCouponSum(AllPayments(1), mi, 1) = Dec(0, 0) /\ ~Reported(mi)

=============================================================================
